---------------------------- MODULE Spec2Model ----------------------------
(***************************************************************************)
(* The miso player: the page component src/src/routes/+page.svelte (its    *)
(* first script block, lines 1-204, and the markup bound to it) together   *)
(* with the audio module src/src/lib/player.ts and lerpAngle of            *)
(* src/unnamed/part_001.                                                   *)
(*                                                                         *)
(* Numbers.  Velocities are integers in units of 0.01 (discAcceleration    *)
(* 0.03 = 3, discMaxSpeed 1.5 = 150).  Angles are integers in units of     *)
(* pi/80, so that a quarter turn is 40 and the diagonal directions of      *)
(* atan2 are exact.  A frame's elapsed time is an integer number of units  *)
(* of 1.25 pi seconds, which makes velocity * delta an integer angle.  The *)
(* product of lerpAngle is cut to the angle resolution (toward zero).      *)
(*                                                                         *)
(* Songs are numbered by the dropped file they come from; the decoded      *)
(* AudioBuffer of song s is named s as well, and 0 stands for undefined.   *)
(***************************************************************************)
EXTENDS Integers, Sequences, FiniteSets, TLC

(* ------------------------------ bounds -------------------------------- *)

\* files accepted over a whole session
MaxSongs == 3

\* files accepted where the Web Audio calls may throw
FaultSongs == 2

\* Tick frames are explored while |discRotation| stays within this range
MaxRotation == 4

\* a run of accelerating frames is counted up to this length
MaxStreak == 52

\* files accepted where the side effects of setSong are followed
EffectSongs == 2

\* buffers a caller of play chooses from
ClientBuffers == 2

\* lerpAngle is called with a among the multiples of pi/8 up to LerpSpan
\* of them either way, and with b any angle up to MaxAngle either way
LerpSpan == 20

MaxAngle == 200

\* open contexts left behind by initPlayer are counted up to this number
MaxLeaked == 2

\* elapsed time between two frames, in units of 1.25 pi seconds
Deltas == {0, 1}

\* pointer positions reported by mousemove (client coordinates)
MousePoints == {<<2, 2>>}

(* ------------------------- program constants -------------------------- *)

discAcceleration == 3

discMaxSpeed == 150

\* Math.PI in angle units
PI == 80

\* the blend factor 0.05 of tick's lerpAngle call, as 1 / LerpDen
LerpDen == 20

\* the centre of the disc's bounding rectangle (x + width/2, y + height/2)
DiscCentre == <<1, 1>>

Undefined == 0

\* values of --color-accent: the stylesheet's, the "#fff" of onDestroy, and
\* the colour extracted from a cover
AccentInitial == [from |-> "stylesheet", cover |-> Undefined]

AccentWhite == [from |-> "#fff", cover |-> Undefined]

AccentOf(cover) == [from |-> "cover", cover |-> cover]

\* outcomes of setSong after its await: the accent and the metadata are
\* set; extractColors rejects or yields no colour; new MediaMetadata or
\* the assignment of it throws
EffectOutcomes == {"ok", "rejected", "metadataThrows"}

\* lerpCall while lerpAngle has not been called on its own
NoLerpCall == [a |-> 0, b |-> 0, tn |-> 0, td |-> 1, done |-> FALSE,
               result |-> 0]

\* outcomes of the Web Audio calls made by play: all succeed, node
\* construction throws, or start throws
PlayOutcomes == {"ok", "throwCreate", "throwStart"}

\* outcomes of the calls made by one setSong: those of play, where "ok"
\* leaves the promise of extractColors pending for the rest of the session,
\* and "okColors", where play succeeds and the promise settles later
SetSongOutcomes == PlayOutcomes \cup {"okColors"}

(* ------------------------------- state -------------------------------- *)

VARIABLES
  phase,             \* "created", "mounted", "destroyed": component lifecycle
  discElement,       \* bind:this of the disc button is set
  tickScheduled,     \* a requestAnimationFrame(tick) callback is pending
  isPaused,
  isLoading,
  queue,             \* Song[]: sequence of song numbers
  audioBuffers,      \* AudioBuffer[]: sequence of buffer numbers
  currIndex,         \* 0-based, as in the code
  discVelocity,
  discRotation,
  dragStartRotation,
  isDiskSpinning,
  isDiskDragging,
  mousePos,
  audioCtx,          \* player.ts: "undefined", "running", "closed"
  source,            \* player.ts: the AudioBufferSourceNode held by `source`
  sounding,          \* ids of the source nodes started and not yet stopped
  drops,             \* onDrop invocations suspended at an await
  filesDropped,      \* number of accepted files so far
  calls,             \* player calls of the latest handler that made any
  streak,            \* frames since the velocity was 0 that all found the
                     \* disc spinning freely and not paused (0: no such run)
  buttonHeld,        \* the pointer button pressed on the disc is still down
  effects,           \* covers of the setSong calls suspended at their await
  accent,            \* the document's --color-accent: the cover it was
                     \* extracted from, AccentInitial or AccentWhite
  metadata,          \* navigator.mediaSession.metadata: the song it shows
  leaked,            \* open AudioContexts that audioCtx no longer refers to
  lerpCall           \* a call of lerpAngle: its arguments and its result

vars == <<phase, discElement, tickScheduled, isPaused, isLoading, queue,
          audioBuffers, currIndex, discVelocity, discRotation,
          dragStartRotation, isDiskSpinning, isDiskDragging, mousePos,
          audioCtx, source, sounding, drops, filesDropped, calls, streak,
          buttonHeld, effects, accent, metadata, leaked, lerpCall>>

compVars == <<phase, discElement, tickScheduled>>

physVars == <<discVelocity, discRotation, dragStartRotation, isDiskSpinning,
              isDiskDragging, mousePos, streak, buttonHeld>>

dropVars == <<isLoading, queue, audioBuffers, drops, filesDropped>>

\* what the side effects of setSong and onDestroy write
docVars == <<accent, metadata>>

\* state of the library functions outside the component's own use of them
libVars == <<leaked, lerpCall>>

(* ------------------------------ helpers ------------------------------- *)

Max(a, b) == IF a >= b THEN a ELSE b

Min(a, b) == IF a <= b THEN a ELSE b

Abs(a) == IF a >= 0 THEN a ELSE -a

\* JavaScript's %: the remainder takes the sign of the dividend
Rem(a, m) == IF a >= 0 THEN a % m ELSE -((-a) % m)

\* division cut toward zero
TruncDiv(a, d) == IF a >= 0 THEN a \div d ELSE -((-a) \div d)

Sign(a) == IF a > 0 THEN 1 ELSE IF a < 0 THEN -1 ELSE 0

\* Math.atan2(y, x) on the axes and the diagonals
Atan2(y, x) ==
  LET sy == Sign(y)
      sx == Sign(x)
  IN  CASE sy = 0 /\ sx >= 0 -> 0
        [] sy = 0 /\ sx < 0 -> PI
        [] sy > 0 /\ sx > 0 -> PI \div 4
        [] sy > 0 /\ sx = 0 -> PI \div 2
        [] sy > 0 /\ sx < 0 -> 3 * (PI \div 4)
        [] sy < 0 /\ sx > 0 -> -(PI \div 4)
        [] sy < 0 /\ sx = 0 -> -(PI \div 2)
        [] sy < 0 /\ sx < 0 -> -(3 * (PI \div 4))

\* lerp(a, b, t) of the same file: no wrapping of the difference
Lerp(a, b, tn, td) == a + TruncDiv((b - a) * tn, td)

\* lerpAngle(a, b, t) with t = tn / td
LerpAngle(a, b, tn, td) ==
  LET difference == Rem(b - a, 2 * PI)
      short_angle_dist == Rem(2 * difference, 2 * PI) - difference
  IN  a + TruncDiv(short_angle_dist * tn, td)

NoSource == [id |-> 0, buffer |-> Undefined, state |-> "undefined",
             num |-> 1, den |-> 1]

\* buffers[i] of the code (0-based); undefined outside the array
BufferAt(buffers, i) ==
  IF i + 1 \in DOMAIN buffers THEN buffers[i + 1] ELSE Undefined

RateCall(rate) ==
  [fn |-> "setPlaybackRate", buffer |-> Undefined, num |-> rate.num,
   den |-> rate.den, threw |-> FALSE]

PlayCall(b, threw) ==
  [fn |-> "play", buffer |-> b, num |-> 0, den |-> 1, threw |-> threw]

(* ------------------------------ player.ts ----------------------------- *)

\* initPlayer(): audioCtx is assigned a new context; one it referred to
\* stays open, referred to by nothing
InitPlayer ==
  [audioCtx |-> "running",
   leaked |-> IF audioCtx = "running" THEN Min(leaked + 1, MaxLeaked)
              ELSE leaked]

\* a node id not in use: ids of stopped, unreferenced nodes are reused
FreshId == CHOOSE n \in 1..(Cardinality(sounding) + 2) :
             n \notin sounding /\ n # source.id

\* play without line 11: the node held by source is left running
PlayNoStop(buffer, outcome) ==
  LET node == [id |-> FreshId, buffer |-> buffer, state |-> "created",
               num |-> 1, den |-> 1]
  IN  CASE outcome = "throwCreate" ->
             [source |-> source, sounding |-> sounding, threw |-> TRUE]
        [] outcome = "throwStart" ->
             [source |-> node, sounding |-> sounding, threw |-> TRUE]
        [] OTHER ->
             [source |-> [node EXCEPT !.state = "started"],
              sounding |-> sounding \cup {node.id}, threw |-> FALSE]

\* play(buffer): the source and the sounding set it leaves, and whether it
\* threw.  stop() on a node that was never started throws InvalidStateError.
Play(buffer, outcome) ==
  IF source.id # 0 /\ source.state = "created"
  THEN [source |-> source, sounding |-> sounding, threw |-> TRUE]
  ELSE LET stopped == IF source.id # 0
                      THEN [source EXCEPT !.state = "stopped"]
                      ELSE source
           quiet == sounding \ {source.id}
           node == [id |-> FreshId, buffer |-> buffer, state |-> "created",
                    num |-> 1, den |-> 1]
       IN  CASE outcome = "throwCreate" ->
                  [source |-> stopped, sounding |-> quiet, threw |-> TRUE]
             [] outcome = "throwStart" ->
                  [source |-> node, sounding |-> quiet, threw |-> TRUE]
             [] OTHER ->
                  [source |-> [node EXCEPT !.state = "started"],
                   sounding |-> quiet \cup {node.id}, threw |-> FALSE]

\* setPlaybackRate(rate): the source it leaves
SetPlaybackRate(rate) ==
  IF source.id = 0 \/ audioCtx = "undefined"
  THEN source
  ELSE [source EXCEPT !.num = rate.num, !.den = rate.den]

(* ---------------------------- +page.svelte ---------------------------- *)

\* the index clamped into the queue instead of wrapped
SetSongIndexClamped(index, length) == Max(0, Min(index, length - 1))

\* Math.max(0, index % queue.length)
SetSongIndex(index, length) == Max(0, Rem(index, length))

\* setSong(index) up to its first await; buffers is audioBuffers as the
\* call finds it.  A throw of play rejects the async function's promise
\* before isPaused = false; otherwise the call is suspended at
\* extractColors(queue[currIndex].cover), the cover being read before the
\* await when the promise is one that settles.
SetSong(index, buffers, outcome) ==
  IF Len(queue) = 0
  THEN UNCHANGED <<currIndex, isPaused, source, sounding, calls, effects>>
  ELSE LET idx == SetSongIndex(index, Len(queue))
           r == Play(BufferAt(buffers, idx), outcome)
       IN  /\ currIndex' = idx
           /\ source' = r.source
           /\ sounding' = r.sounding
           /\ isPaused' = (IF r.threw THEN isPaused ELSE FALSE)
           /\ calls' = <<PlayCall(BufferAt(buffers, idx), r.threw)>>
           /\ effects' = (IF outcome = "okColors"
                          THEN effects \cup {queue[idx + 1]}
                          ELSE effects)

\* a handler that only calls setSong(index)
SetSongCall(index, outcomes) ==
  /\ \E outcome \in outcomes : SetSong(index, audioBuffers, outcome)
  /\ UNCHANGED <<docVars, libVars, compVars, physVars, dropVars, audioCtx>>

\* the rest of setSong where a failure undoes the selection's isPaused
SideEffectsAbort(outcomes) ==
  \E c \in effects, outcome \in outcomes, again \in BOOLEAN :
    /\ effects' = (IF again THEN effects ELSE effects \ {c})
    /\ CASE outcome = "rejected" ->
              isPaused' = TRUE /\ UNCHANGED docVars
         [] outcome = "metadataThrows" ->
              isPaused' = TRUE /\ accent' = AccentOf(c) /\ UNCHANGED metadata
         [] OTHER ->
              /\ accent' = AccentOf(c)
              /\ metadata' = (IF currIndex + 1 \in DOMAIN queue
                              THEN queue[currIndex + 1] ELSE metadata)
              /\ UNCHANGED isPaused
    /\ UNCHANGED <<libVars, compVars, currIndex, physVars, dropVars,
                   audioCtx, source, sounding, calls>>

\* the rest of setSong, from the settling of extractColors on, for a call
\* suspended with cover c.  Calls suspended with the same cover are kept
\* as one: when one resumes, another may remain.  The metadata is that of
\* queue[currIndex] as the resumed call finds it; where the queue has no
\* such song, reading its title throws after the accent is set.
SideEffects(outcomes) ==
  \E c \in effects, outcome \in outcomes, again \in BOOLEAN :
    /\ effects' = (IF again THEN effects ELSE effects \ {c})
    /\ CASE outcome = "rejected" -> UNCHANGED docVars
         [] outcome = "metadataThrows" ->
              accent' = AccentOf(c) /\ UNCHANGED metadata
         [] OTHER ->
              /\ accent' = AccentOf(c)
              /\ metadata' = (IF currIndex + 1 \in DOMAIN queue
                              THEN queue[currIndex + 1] ELSE metadata)
    /\ UNCHANGED <<libVars, compVars, isPaused, currIndex, physVars,
                   dropVars, audioCtx, source, sounding, calls>>

\* the velocity update without Math.max and Math.min
TickVelocityNoClamp(v, spinning, paused) ==
  IF spinning
  THEN IF paused THEN v - discAcceleration ELSE v + discAcceleration
  ELSE v

\* the velocity update with the branches of isPaused exchanged
TickVelocitySwapped(v, spinning, paused) ==
  IF spinning
  THEN IF paused THEN Min(v + discAcceleration, discMaxSpeed)
                 ELSE Max(v - discAcceleration, 0)
  ELSE v

\* the velocity update without the test of isDiskSpinning
TickVelocityAlways(v, spinning, paused) ==
  IF paused THEN Max(v - discAcceleration, 0)
            ELSE Min(v + discAcceleration, discMaxSpeed)

\* the velocity update of tick
TickVelocity(v, spinning, paused) ==
  IF spinning
  THEN IF paused THEN Max(v - discAcceleration, 0)
                 ELSE Min(v + discAcceleration, discMaxSpeed)
  ELSE v

\* the rate computed from the velocity before the frame's update
StalePlaybackRateArg(v) == [num |-> discVelocity, den |-> discMaxSpeed]

\* the argument discVelocity / discMaxSpeed of tick's setPlaybackRate call,
\* v being the velocity after the frame's update
PlaybackRateArg(v) == [num |-> v, den |-> discMaxSpeed]

\* the length of the run of accelerating frames after one more frame
TickStreak(v, spinning, paused) ==
  IF spinning /\ ~paused
  THEN IF v = 0 THEN 1
       ELSE IF streak > 0 THEN Min(streak + 1, MaxStreak) ELSE 0
  ELSE 0

\* targetRotation of tick
TargetRotation == Atan2(mousePos[2] - DiscCentre[2], mousePos[1] - DiscCentre[1])

\* the rotation update of tick, given the frame's velocity and delta
TickRotation(rot, v, delta) ==
  LET dragged == IF isDiskDragging
                 THEN LerpAngle(rot, TargetRotation + dragStartRotation, 1, LerpDen)
                 ELSE rot
  IN  dragged + v * delta

\* the component's script has run and the player module is loaded
InitComponent ==
  /\ phase = "created"
  /\ discElement = FALSE
  /\ tickScheduled = FALSE
  /\ isPaused = TRUE
  /\ isLoading = FALSE
  /\ queue = <<>>
  /\ audioBuffers = <<>>
  /\ currIndex = 0
  /\ discVelocity = 0
  /\ discRotation = 0
  /\ dragStartRotation = 0
  /\ isDiskSpinning = TRUE
  /\ isDiskDragging = FALSE
  /\ mousePos = <<0, 0>>
  /\ audioCtx = "undefined"
  /\ source = NoSource
  /\ sounding = {}
  /\ drops = {}
  /\ filesDropped = 0
  /\ calls = <<>>
  /\ streak = 0
  /\ buttonHeld = FALSE
  /\ effects = {}
  /\ accent = AccentInitial
  /\ metadata = Undefined
  /\ leaked = 0

Init == InitComponent /\ lerpCall = NoLerpCall

\* the arguments of a call of lerpAngle: t is 0, the 0.05 of tick, or 1
LerpCalls ==
  {[a |-> (PI \div 8) * k, b |-> b, tn |-> t[1], td |-> t[2],
    done |-> FALSE, result |-> 0] :
     k \in (-LerpSpan)..LerpSpan, b \in (-MaxAngle)..MaxAngle,
     t \in {<<0, 1>>, <<1, LerpDen>>, <<1, 1>>}}

\* lerpAngle about to be called with any of these arguments
InitLerp == InitComponent /\ lerpCall \in LerpCalls

\* the call of lerpAngle
CallLerpAngle ==
  /\ ~lerpCall.done
  /\ lerpCall' = [lerpCall EXCEPT
                    !.done = TRUE,
                    !.result = LerpAngle(lerpCall.a, lerpCall.b,
                                         lerpCall.tn, lerpCall.td)]
  /\ UNCHANGED <<docVars, leaked, compVars, isPaused, currIndex, physVars,
                 dropVars, audioCtx, source, sounding, calls, effects>>

\* the component is mounted: bind:this, then the onMount callback
OnMount(outcomes) ==
  /\ phase = "created"
  /\ phase' = "mounted"
  /\ discElement' = TRUE
  /\ audioCtx' = InitPlayer.audioCtx
  /\ leaked' = InitPlayer.leaked
  /\ tickScheduled' = TRUE
  /\ \E outcome \in outcomes : SetSong(0, audioBuffers, outcome)
  /\ UNCHANGED <<docVars, lerpCall, physVars, dropVars>>

\* one animation frame of a tick that does not test discElement
TickUnguarded ==
  /\ tickScheduled
  /\ \E delta \in Deltas :
       LET v == TickVelocity(discVelocity, isDiskSpinning, isPaused)
           rot == TickRotation(discRotation, v, delta)
       IN  /\ Abs(rot) <= MaxRotation
           /\ discVelocity' = v
           /\ discRotation' = rot
           /\ source' = SetPlaybackRate(PlaybackRateArg(v))
           /\ calls' = <<RateCall(PlaybackRateArg(v))>>
           /\ streak' = TickStreak(discVelocity, isDiskSpinning, isPaused)
           /\ tickScheduled' = TRUE
           /\ UNCHANGED <<docVars, libVars, phase, discElement, isPaused,
                          currIndex, dragStartRotation, isDiskSpinning,
                          isDiskDragging, mousePos, buttonHeld, dropVars,
                          audioCtx, sounding, effects>>

\* one animation frame
Tick ==
  /\ tickScheduled
  /\ IF ~discElement
     THEN /\ tickScheduled' = FALSE
          /\ UNCHANGED <<docVars, libVars, phase, discElement, isPaused,
                         currIndex, physVars, dropVars, audioCtx, source,
                         sounding, calls, effects>>
     ELSE \E delta \in Deltas :
            LET v == TickVelocity(discVelocity, isDiskSpinning, isPaused)
                rot == TickRotation(discRotation, v, delta)
            IN  /\ Abs(rot) <= MaxRotation
                /\ discVelocity' = v
                /\ discRotation' = rot
                /\ source' = SetPlaybackRate(PlaybackRateArg(v))
                /\ calls' = <<RateCall(PlaybackRateArg(v))>>
                /\ streak' = TickStreak(discVelocity, isDiskSpinning, isPaused)
                /\ tickScheduled' = TRUE
                /\ UNCHANGED <<docVars, libVars, phase, discElement,
                               isPaused, currIndex, dragStartRotation,
                               isDiskSpinning, isDiskDragging, mousePos,
                               buttonHeld, dropVars, audioCtx, sounding,
                               effects>>

\* one animation frame whose setPlaybackRate call reaches setValueAtTime
\* and that call throws: the lines of tick before it have run, the
\* requestAnimationFrame after it has not
TickRateThrows ==
  /\ tickScheduled
  /\ discElement
  /\ source.id # 0 /\ audioCtx # "undefined"
  /\ \E delta \in Deltas :
       LET v == TickVelocity(discVelocity, isDiskSpinning, isPaused)
           rot == TickRotation(discRotation, v, delta)
       IN  /\ Abs(rot) <= MaxRotation
           /\ discVelocity' = v
           /\ discRotation' = rot
           /\ calls' = <<[RateCall(PlaybackRateArg(v)) EXCEPT !.threw = TRUE]>>
           /\ streak' = TickStreak(discVelocity, isDiskSpinning, isPaused)
           /\ tickScheduled' = FALSE
           /\ UNCHANGED <<docVars, libVars, phase, discElement, isPaused,
                          currIndex, dragStartRotation, isDiskSpinning,
                          isDiskDragging, mousePos, buttonHeld, dropVars,
                          audioCtx, source, sounding, effects>>

\* cleanupPlayer(): stop() throws on a node that was never started, and
\* then close() is not reached
CleanupPlayer ==
  IF source.id # 0 /\ source.state = "created"
  THEN [source |-> source, sounding |-> sounding, audioCtx |-> audioCtx,
        threw |-> TRUE]
  ELSE [source |-> IF source.id # 0
                   THEN [source EXCEPT !.state = "stopped"]
                   ELSE source,
        sounding |-> sounding \ {source.id},
        audioCtx |-> IF audioCtx = "undefined" THEN audioCtx ELSE "closed",
        threw |-> FALSE]

\* the calls cleanupPlayer makes on the source node and on the context, in
\* order.  stop() on a node that was never started throws; close() on a
\* closed context returns a rejected promise.
CleanupPlayerCalls ==
  (IF source.id # 0
   THEN <<[PlayCall(source.buffer, source.state = "created")
             EXCEPT !.fn = "stop"]>>
   ELSE <<>>)
  \o
  (IF audioCtx # "undefined" /\ ~(source.id # 0 /\ source.state = "created")
   THEN <<[PlayCall(Undefined, audioCtx = "closed") EXCEPT !.fn = "close"]>>
   ELSE <<>>)

\* the functions of player.ts called by any importer of the module
ClientInitPlayer ==
  /\ audioCtx' = InitPlayer.audioCtx
  /\ leaked' = InitPlayer.leaked
  /\ calls' = <<>>
  /\ UNCHANGED <<docVars, lerpCall, compVars, isPaused, currIndex, physVars,
                 dropVars, source, sounding, effects>>

\* play(buffer); without a context createBufferSource is a TypeError
ClientPlay(outcomes) ==
  /\ \E buffer \in 1..ClientBuffers, outcome \in outcomes :
       LET r == Play(buffer, IF audioCtx = "undefined" THEN "throwCreate"
                             ELSE outcome)
       IN  /\ source' = r.source
           /\ sounding' = r.sounding
           /\ calls' = <<PlayCall(buffer, r.threw)>>
  /\ UNCHANGED <<docVars, libVars, compVars, isPaused, currIndex, physVars,
                 dropVars, audioCtx, effects>>

ClientSetPlaybackRate ==
  /\ \E v \in {0, discMaxSpeed} :
       /\ source' = SetPlaybackRate(PlaybackRateArg(v))
       /\ calls' = <<RateCall(PlaybackRateArg(v))>>
  /\ UNCHANGED <<docVars, libVars, compVars, isPaused, currIndex, physVars,
                 dropVars, audioCtx, sounding, effects>>

ClientCleanupPlayer ==
  /\ LET r == CleanupPlayer
     IN  /\ source' = r.source
         /\ sounding' = r.sounding
         /\ audioCtx' = r.audioCtx
  /\ calls' = CleanupPlayerCalls
  /\ UNCHANGED <<docVars, libVars, compVars, isPaused, currIndex, physVars,
                 dropVars, effects>>

\* the component is destroyed: the onDestroy callback, then the markup and
\* its bind:this go away (when onDestroy throws, either may be the case)
OnDestroy ==
  /\ phase = "mounted"
  /\ phase' = "destroyed"
  /\ LET r == CleanupPlayer
     IN  /\ source' = r.source
         /\ sounding' = r.sounding
         /\ audioCtx' = r.audioCtx
         /\ IF r.threw THEN discElement' \in BOOLEAN ELSE discElement' = FALSE
         /\ accent' = (IF r.threw THEN accent ELSE AccentWhite)
  /\ UNCHANGED <<metadata, libVars, tickScheduled, isPaused, currIndex,
                 physVars, dropVars, calls, effects>>

\* the document's keydown listener; it is never removed
KeySpace ==
  /\ phase # "created"
  /\ isPaused' = ~isPaused
  /\ UNCHANGED <<docVars, libVars, compVars, currIndex, physVars, dropVars,
                 audioCtx, source, sounding, calls, effects>>

KeyArrowRight(outcomes) ==
  /\ phase # "created"
  /\ SetSongCall(currIndex + 1, outcomes)

KeyArrowLeft(outcomes) ==
  /\ phase # "created"
  /\ SetSongCall(currIndex - 1, outcomes)

\* the media-session action handlers
MediaPlay ==
  /\ phase # "created"
  /\ isPaused' = FALSE
  /\ UNCHANGED <<docVars, libVars, compVars, currIndex, physVars, dropVars,
                 audioCtx, source, sounding, calls, effects>>

MediaPause ==
  /\ phase # "created"
  /\ isPaused' = TRUE
  /\ UNCHANGED <<docVars, libVars, compVars, currIndex, physVars, dropVars,
                 audioCtx, source, sounding, calls, effects>>

MediaPreviousTrack(outcomes) ==
  /\ phase # "created"
  /\ SetSongCall(currIndex - 1, outcomes)

MediaNextTrack(outcomes) ==
  /\ phase # "created"
  /\ SetSongCall(currIndex + 1, outcomes)

\* a click on the i-th button of the queue list, rendered when the queue
\* is not empty and nothing is loading
QueueClick(outcomes) ==
  /\ discElement
  /\ Len(queue) > 0 /\ ~isLoading
  /\ \E i \in 0..(Len(queue) - 1) : SetSongCall(i, outcomes)

\* pointer handlers of the disc button
OnMouseDown ==
  /\ discElement
  /\ isDiskSpinning' = FALSE
  /\ isDiskDragging' = TRUE
  /\ dragStartRotation' = discRotation
  /\ buttonHeld' = TRUE
  /\ UNCHANGED <<docVars, libVars, compVars, isPaused, currIndex,
                 discVelocity, discRotation, mousePos, streak, dropVars,
                 audioCtx, source, sounding, calls, effects>>

OnMouseUp ==
  /\ discElement
  /\ isDiskSpinning' = TRUE
  /\ isDiskDragging' = FALSE
  /\ buttonHeld' = FALSE
  /\ UNCHANGED <<docVars, libVars, compVars, isPaused, currIndex,
                 discVelocity, discRotation, dragStartRotation, mousePos,
                 streak, dropVars, audioCtx, source, sounding, calls,
                 effects>>

OnMouseMove ==
  /\ discElement
  /\ \E p \in MousePoints : mousePos' = p
  /\ UNCHANGED <<docVars, libVars, compVars, isPaused, currIndex,
                 discVelocity, discRotation, dragStartRotation,
                 isDiskSpinning, isDiskDragging, streak, buttonHeld,
                 dropVars, audioCtx, source, sounding, calls, effects>>

\* the button pressed on the disc is released with the pointer off the
\* disc: the mouseup event goes to another element, and the disc button's
\* on:mouseup is the only binding of onMouseUp
MouseUpElsewhere ==
  /\ discElement
  /\ buttonHeld
  /\ buttonHeld' = FALSE
  /\ UNCHANGED <<docVars, libVars, compVars, isPaused, currIndex,
                 discVelocity, discRotation, dragStartRotation,
                 isDiskSpinning, isDiskDragging, mousePos, streak, dropVars,
                 audioCtx, source, sounding, calls, effects>>

\* onDrop with no file of an accepted type: nothing happens
DropRejected ==
  /\ phase # "created"
  /\ UNCHANGED vars

\* onDrop with k accepted files, up to its first await.  prevQueue and the
\* spread of queue in the array literal are both read before the await.
DropFiles(limit) ==
  /\ phase # "created"
  /\ \E k \in 1..(limit - filesDropped) :
       /\ drops' = drops \cup
            {[prevQueue |-> queue,
              files |-> [i \in 1..k |-> filesDropped + i],
              pc |-> "parse",
              pending |-> <<>>]}
       /\ filesDropped' = filesDropped + k
  /\ isLoading' = TRUE
  /\ UNCHANGED <<docVars, libVars, compVars, isPaused, queue, audioBuffers,
                 currIndex, physVars, audioCtx, source, sounding, calls,
                 effects>>

\* every parseWebStream of a drop has resolved: queue is assigned and the
\* decoding of every song of the new queue starts
ParseDone ==
  \E d \in drops :
    /\ d.pc = "parse"
    /\ queue' = d.prevQueue \o d.files
    /\ drops' = (drops \ {d}) \cup
         {[d EXCEPT !.pc = "decode", !.pending = d.prevQueue \o d.files]}
    /\ UNCHANGED <<docVars, libVars, compVars, isPaused, isLoading,
                   audioBuffers, currIndex, physVars, filesDropped, audioCtx,
                   source, sounding, calls, effects>>

\* a parseWebStream rejects: onDrop ends with the exception
ParseFail ==
  \E d \in drops :
    /\ d.pc = "parse"
    /\ drops' = drops \ {d}
    /\ UNCHANGED <<docVars, libVars, compVars, isPaused, isLoading, queue,
                   audioBuffers, currIndex, physVars, filesDropped, audioCtx,
                   source, sounding, calls, effects>>

\* every decodeAudioData of drop d has resolved: the rest of onDrop
DecodeDoneOf(d, outcomes) ==
  /\ d.pc = "decode"
  /\ audioBuffers' = d.pending
  /\ IF Len(d.prevQueue) = 0
     THEN \E outcome \in outcomes : SetSong(0, d.pending, outcome)
     ELSE UNCHANGED <<currIndex, isPaused, source, sounding, calls, effects>>
  /\ isLoading' = FALSE
  /\ drops' = drops \ {d}
  /\ UNCHANGED <<docVars, libVars, compVars, queue, physVars, filesDropped,
                 audioCtx>>

DecodeDone(outcomes) == \E d \in drops : DecodeDoneOf(d, outcomes)

\* a fetch or decodeAudioData rejects: onDrop ends with the exception
DecodeFail ==
  \E d \in drops :
    /\ d.pc = "decode"
    /\ drops' = drops \ {d}
    /\ UNCHANGED <<docVars, libVars, compVars, isPaused, isLoading, queue,
                   audioBuffers, currIndex, physVars, filesDropped, audioCtx,
                   source, sounding, calls, effects>>

(* ------------------------------- claims ------------------------------- *)

\* a tick frame that runs (one that finds the disc element)
TickFrame == discElement /\ Tick

\* a step that is a call setSong(r): the handlers that only call setSong,
\* and the call setSong(0) that ends the ingestion of a first batch
SetSongStep(r) ==
  \/ SetSongCall(r, SetSongOutcomes)
  \/ /\ r = 0
     /\ \E d \in drops :
          Len(d.prevQueue) = 0 /\ DecodeDoneOf(d, SetSongOutcomes)

\* the indices setSong is called with
Requests == (-1)..MaxSongs

\* C1: in every reachable state, whatever frames, pause toggles, track
\* selections and pointer events came before, 0 <= discVelocity <=
\* discMaxSpeed.
C1_VelocityInRange == 0 <= discVelocity /\ discVelocity <= discMaxSpeed

\* the velocity sits at its upper bound, with a track selected and the
\* latest frame's rate pushed
C1_Witness ==
  /\ discVelocity = discMaxSpeed
  /\ source.id # 0
  /\ calls = <<RateCall(PlaybackRateArg(discMaxSpeed))>>

\* C2: every tick frame that runs calls setPlaybackRate exactly once, with
\* the velocity after that frame's update over discMaxSpeed, a value within
\* [0, 1], whether the disc spins freely or is dragged.
C2_RateFollowsVelocity ==
  [][TickFrame =>
       /\ Len(calls') = 1
       /\ calls'[1].fn = "setPlaybackRate"
       /\ calls'[1].num = discVelocity'
       /\ calls'[1].den = discMaxSpeed
       /\ 0 <= calls'[1].num /\ calls'[1].num <= calls'[1].den]_vars

\* a frame during a drag has pushed a rate strictly inside (0, 1) to the
\* playing source
C2_Witness ==
  /\ isDiskDragging
  /\ discRotation # dragStartRotation
  /\ 0 < discVelocity /\ discVelocity < discMaxSpeed
  /\ calls = <<RateCall(PlaybackRateArg(discVelocity))>>
  /\ source.state = "started"
  /\ source.num = discVelocity /\ source.den = discMaxSpeed

\* C3: at most one source is started and not yet stopped, and only the node
\* held by source can be; a play call that returns leaves exactly one, the
\* node it started, the node held before being stopped in the same step.
C3_OneSourceSounding ==
  /\ [](/\ Cardinality(sounding) <= 1
        /\ sounding \subseteq {source.id}
        /\ (source.id \in sounding <=> source.state = "started"))
  /\ [][\A r \in Requests :
          (Len(queue) > 0 /\ SetSongStep(r) /\ ~calls'[1].threw) =>
            /\ sounding' = {source'.id}
            /\ source'.id # source.id
            /\ source.id \notin sounding']_vars

\* a second play: track 2 of a queue was selected while another node was
\* held, and its node alone sounds
C3_Witness ==
  /\ Len(queue) >= 2
  /\ currIndex = 1
  /\ source.state = "started"
  /\ source.buffer = 2
  /\ sounding = {source.id}
  /\ calls = <<PlayCall(2, FALSE)>>

\* C4: with a non-empty queue of length N and currIndex = 0, setSong(-1)
\* sets currIndex to N-1 and plays the buffer at index N-1.
C4_PreviousWraps ==
  [][(Len(queue) > 0 /\ currIndex = 0 /\ SetSongStep(-1)) =>
       /\ currIndex' = Len(queue) - 1
       /\ calls'[1].fn = "play"
       /\ calls'[1].buffer = BufferAt(audioBuffers, Len(queue) - 1)]_vars

\* C5: with a non-empty queue of length N, setSong(r) for r >= 0 sets
\* currIndex to r mod N and calls play, once, with the buffer at that index.
C5_SetSongWraps ==
  [][\A r \in Requests :
       (r >= 0 /\ Len(queue) > 0 /\ SetSongStep(r)) =>
         /\ currIndex' = r % Len(queue)
         /\ Len(calls') = 1
         /\ calls'[1].fn = "play"
         /\ calls'[1].buffer = BufferAt(audioBuffers', r % Len(queue))]_vars

\* index 1 of a queue of three tracks is selected and its buffer played
C5_Witness ==
  /\ Len(queue) = 3
  /\ Len(audioBuffers) = 3
  /\ currIndex = 1
  /\ calls = <<PlayCall(audioBuffers[2], FALSE)>>
  /\ source.buffer = audioBuffers[2]

\* C6: while the disc spins freely, a frame that finds isPaused true lowers
\* the velocity until it is exactly 0, where it stays, and a frame that
\* finds it false raises it until it is exactly discMaxSpeed, where it
\* stays; a run of such frames from velocity 0 is at discMaxSpeed from its
\* 50th frame on and below it before.
C6_SpinMonotone ==
  /\ [](streak > 0 =>
          /\ discVelocity = Min(streak * discAcceleration, discMaxSpeed)
          /\ (discVelocity = discMaxSpeed <=> streak >= 50))
  /\ [][(TickFrame /\ isDiskSpinning) =>
          IF isPaused
          THEN /\ 0 <= discVelocity'
               /\ discVelocity > 0 => discVelocity' < discVelocity
               /\ discVelocity = 0 => discVelocity' = 0
          ELSE /\ discVelocity' <= discMaxSpeed
               /\ discVelocity < discMaxSpeed => discVelocity' > discVelocity
               /\ discVelocity = discMaxSpeed => discVelocity' = discMaxSpeed]_vars

\* the 50th frame of a run from velocity 0 has just reached discMaxSpeed
C6_Witness == streak = 50 /\ discVelocity = discMaxSpeed /\ ~isPaused

\* C7: from pointer-down to pointer-up no step changes discVelocity, the
\* two pointer handlers included, and every frame in between pushes the
\* rate of the velocity the drag began with.
C7_DragKeepsVelocity ==
  [][/\ (isDiskDragging \/ isDiskDragging') => discVelocity' = discVelocity
     /\ (isDiskDragging /\ TickFrame) =>
          /\ calls'[1].fn = "setPlaybackRate"
          /\ calls'[1].num = discVelocity
          /\ calls'[1].den = discMaxSpeed]_vars

\* a frame has run during a drag (the rotation left its value at
\* pointer-down) while a free disc would have been accelerating
C7_Witness ==
  /\ isDiskDragging
  /\ discRotation # dragStartRotation
  /\ ~isPaused
  /\ 0 < discVelocity /\ discVelocity < discMaxSpeed
  /\ calls = <<RateCall(PlaybackRateArg(discVelocity))>>

\* C8: every frame updates discRotation exactly once: by the velocity times
\* delta when the disc is not dragged, by the interpolation toward
\* targetRotation + dragStartRotation alone when it is.
C8_RotationUpdatedOnce ==
  [][TickFrame =>
       IF isDiskDragging
       THEN discRotation' =
              LerpAngle(discRotation, TargetRotation + dragStartRotation,
                        1, LerpDen)
       ELSE \E delta \in Deltas :
              discRotation' = discRotation + discVelocity' * delta]_vars

\* C9: every setSong that calls play passes the decoded buffer of the track
\* it selected, never undefined.
C9_SelectionGatedOnDecode ==
  [][\A r \in Requests :
       (Len(queue) > 0 /\ SetSongStep(r)) =>
         /\ calls'[1].fn = "play"
         /\ calls'[1].buffer # Undefined
         /\ calls'[1].buffer = queue'[currIndex' + 1]]_vars

\* C10: a play call that throws leaves the source that was sounding as it
\* was: still held, still the one sounding.
C10_FailedPlayKeepsSource ==
  [][\A r \in Requests :
       (Len(queue) > 0 /\ SetSongStep(r) /\ calls'[1].threw
          /\ source.id \in sounding) =>
         /\ source' = source
         /\ sounding' = sounding]_vars

\* C11: for a non-empty queue, setSong(i) whose play returns leaves
\* currIndex = i, has called play with the buffer at index i and leaves
\* isPaused false; and the rest of the call, whether extractColors and the
\* metadata update succeed or fail, changes none of currIndex, isPaused,
\* the source held and the player calls made.
C11_SideEffectsKeepSelection ==
  /\ [][\A r \in Requests :
          (/\ 0 <= r /\ r < Len(queue)
           /\ SetSongStep(r)
           /\ ~calls'[1].threw) =>
            /\ currIndex' = r
            /\ calls' = <<PlayCall(BufferAt(audioBuffers', r), FALSE)>>
            /\ ~isPaused']_vars
  /\ [][SideEffects(EffectOutcomes) =>
          UNCHANGED <<currIndex, isPaused, source, sounding, calls>>]_vars

\* every suspended call has resumed and none set the accent (all failed at
\* extractColors), yet track 2 is selected, playing and not paused
C11_Witness ==
  /\ effects = {}
  /\ accent = AccentInitial
  /\ metadata = Undefined
  /\ currIndex = 1
  /\ ~isPaused
  /\ source.state = "started"
  /\ calls = <<PlayCall(BufferAt(audioBuffers, 1), FALSE)>>

\* C12: no step removes or moves a track: the queue before a step is a
\* prefix of the queue after it, drops that overlap included.
C12_TracksNeverRemoved ==
  [][/\ Len(queue) <= Len(queue')
     /\ \A i \in 1..Len(queue) :
          i \in DOMAIN queue' /\ queue'[i] = queue[i]]_vars

\* C13: when the metadata parse of a drop ends, by resolving or by the
\* failure of a file's parse, every file of the drop is in the queue.
C13_ParseFailureKeepsFile ==
  [][\A d \in drops :
       (d.pc = "parse" /\ d \notin drops') =>
         \A i \in DOMAIN d.files :
           \E j \in DOMAIN queue' : queue'[j] = d.files[i]]_vars

\* C20: whenever isLoading is false, audioBuffers and queue have the same
\* length and audioBuffers[i] is the decoded audio of queue[i] for every i.
C20_BuffersAlignedWhenIdle ==
  ~isLoading =>
    /\ Len(audioBuffers) = Len(queue)
    /\ \A i \in DOMAIN queue : audioBuffers[i] = queue[i]

\* C14: a frame whose setPlaybackRate call fails still schedules the next
\* frame.
C14_FrameLoopSurvivesFailure ==
  [][((TickFrame \/ TickRateThrows) /\ calls'[1].threw) =>
       tickScheduled']_vars

\* C15: once onDestroy has run (its cleanupPlayer returned, so the context
\* is closed), a tick callback that fires changes nothing but the pending
\* callback it was: velocity, rotation, the source and the player calls
\* made stay as they are, and no callback is pending afterwards, ever.
C15_TeardownStopsFrames ==
  /\ [][(phase = "destroyed" /\ audioCtx = "closed" /\ Tick) =>
          /\ UNCHANGED <<discVelocity, discRotation, source, sounding, calls>>
          /\ ~tickScheduled']_vars
  /\ [][(phase = "destroyed" /\ audioCtx = "closed" /\ ~tickScheduled) =>
          ~tickScheduled']_vars

\* the callback pending at teardown has fired and found the disc gone,
\* while the disc was turning and the player not paused
C15_Witness ==
  /\ phase = "destroyed"
  /\ audioCtx = "closed"
  /\ ~discElement
  /\ ~tickScheduled
  /\ discVelocity > 0
  /\ ~isPaused

\* C16: cleanupPlayer called on a player never initialized makes no call
\* and changes nothing; called on a player already torn down it makes no
\* call either (no second stop, no second close); called on a live player
\* it stops the source that sounds and closes the context; and no call it
\* makes fails.
C16_CleanupPlayerSafe ==
  [][ClientCleanupPlayer =>
       /\ \A i \in DOMAIN calls' : ~calls'[i].threw
       /\ (audioCtx = "undefined" /\ source.id = 0) =>
            (calls' = <<>> /\ UNCHANGED <<audioCtx, source, sounding>>)
       /\ audioCtx = "closed" => calls' = <<>>
       /\ audioCtx = "running" => (audioCtx' = "closed" /\ sounding' = {})]_vars

\* C17: however often initPlayer is called, at most one context is open:
\* none is left open that audioCtx no longer refers to.
C17_OneContext == leaked = 0

\* the distance lerpAngle scales by t: what it adds to a when t = 1
ShortAngleDist(a, b) == LerpAngle(a, b, 1, 1) - a

\* C18: for every a and b, the distance lerpAngle scales by t differs from
\* b - a by a whole number of turns and is at most half a turn long; the
\* result lies between a and a plus that distance; lerpAngle(a, b, 0) = a
\* and lerpAngle(a, b, 1) is b up to whole turns.
C18_LerpAngleShortestPath ==
  lerpCall.done =>
    LET a == lerpCall.a
        b == lerpCall.b
        dist == ShortAngleDist(a, b)
    IN  /\ (dist - (b - a)) % (2 * PI) = 0
        /\ Abs(dist) <= PI
        /\ Abs(lerpCall.result - a) <= Abs(dist)
        /\ (lerpCall.result - a) * dist >= 0
        /\ lerpCall.tn = 0 => lerpCall.result = a
        /\ lerpCall.tn = lerpCall.td =>
             (lerpCall.result - b) % (2 * PI) = 0

\* lerpAngle(a, b, 1) was called with b more than a turn below a, and
\* returned an angle other than b
C18_Witness ==
  /\ lerpCall.done
  /\ lerpCall.tn = lerpCall.td
  /\ lerpCall.b < lerpCall.a - 2 * PI
  /\ lerpCall.result # lerpCall.b
  /\ Abs(lerpCall.result - lerpCall.a) = PI \div 2

\* C19: every release of the button that was pressed on the disc, with the
\* pointer on the disc or off it, leaves isDiskSpinning true and
\* isDiskDragging false.
C19_ReleaseEndsDrag ==
  [][(buttonHeld /\ ~buttonHeld') =>
       (isDiskSpinning' /\ ~isDiskDragging')]_vars

\* C21: isLoading is true in every state in which an onDrop with accepted
\* files is suspended at one of its awaits.
C21_LoadingTracksIngestion == drops # {} => isLoading

\* C22: once every suspended setSong has resumed, the accent is the colour
\* of the cover of the track at currIndex and the media-session metadata
\* is that track's, in whatever order the calls resumed.  It is stated for
\* the states where no ingestion is in progress and every dropped file is
\* in the queue, decoded.
C22_LastSelectionWins ==
  (/\ effects = {}
   /\ source.id # 0
   /\ drops = {} /\ ~isLoading
   /\ Len(queue) = filesDropped /\ audioBuffers = queue
   /\ currIndex + 1 \in DOMAIN queue) =>
    /\ accent = AccentOf(queue[currIndex + 1])
    /\ metadata = queue[currIndex + 1]

\* C23: when a drop completes that began on an empty queue, setSong(0) is
\* called once for it: play is called once, with the decoded audio of the
\* track at index 0 of the queue, currIndex is 0 and isPaused is false;
\* when a drop completes that began on a non-empty queue, currIndex,
\* isPaused and the source are left as they were and no player call is
\* made.
C23_AutoStartFirstBatchOnly ==
  [][\A d \in drops :
       DecodeDoneOf(d, SetSongOutcomes) =>
         IF Len(d.prevQueue) = 0
         THEN /\ currIndex' = 0
              /\ calls' = <<PlayCall(queue'[1], FALSE)>>
              /\ source'.buffer = queue'[1]
              /\ ~isPaused'
         ELSE UNCHANGED <<currIndex, isPaused, source, sounding, calls>>]_vars

\* C24: once onDestroy has called cleanupPlayer and the context is closed,
\* no step makes play start a source: after it no source node is started.
C24_NoPlayAfterTeardown ==
  [][(phase = "destroyed" /\ audioCtx = "closed") =>
       (sounding' = {} /\ source'.state # "started")]_vars

(* --------------------------- specifications --------------------------- *)

\* the whole program: every handler, every outcome of the Web Audio calls
Next ==
  \/ OnMount(SetSongOutcomes)
  \/ OnDestroy
  \/ Tick
  \/ TickRateThrows
  \/ KeySpace
  \/ KeyArrowRight(SetSongOutcomes)
  \/ KeyArrowLeft(SetSongOutcomes)
  \/ MediaPlay
  \/ MediaPause
  \/ MediaPreviousTrack(SetSongOutcomes)
  \/ MediaNextTrack(SetSongOutcomes)
  \/ QueueClick(SetSongOutcomes)
  \/ OnMouseDown
  \/ OnMouseUp
  \/ OnMouseMove
  \/ MouseUpElsewhere
  \/ DropRejected
  \/ DropFiles(MaxSongs)
  \/ ParseDone
  \/ ParseFail
  \/ DecodeDone(SetSongOutcomes)
  \/ DecodeFail
  \/ SideEffects(EffectOutcomes)

Spec == Init /\ [][Next]_vars

\* the queue and the audio graph: the handlers that read or write the
\* queue, the buffers or the audio graph, with Web Audio calls that
\* succeed.  The handlers left out (the frame loop, the pause and the
\* pointer handlers) write none of the variables these handlers read: tick
\* writes the disc and the rate of the node held by source, the others
\* isPaused and the drag state.
NextAudio ==
  \/ OnMount({"ok"})
  \/ OnDestroy
  \/ KeyArrowRight({"ok"})
  \/ KeyArrowLeft({"ok"})
  \/ MediaPreviousTrack({"ok"})
  \/ MediaNextTrack({"ok"})
  \/ QueueClick({"ok"})
  \/ DropRejected
  \/ DropFiles(MaxSongs)
  \/ ParseDone
  \/ ParseFail
  \/ DecodeDone({"ok"})
  \/ DecodeFail

SpecAudio == Init /\ [][NextAudio]_vars

\* the same handlers with Web Audio calls that may throw, on at most
\* FaultSongs files
NextFaulty ==
  \/ OnMount(PlayOutcomes)
  \/ OnDestroy
  \/ KeyArrowRight(PlayOutcomes)
  \/ KeyArrowLeft(PlayOutcomes)
  \/ MediaPreviousTrack(PlayOutcomes)
  \/ MediaNextTrack(PlayOutcomes)
  \/ QueueClick(PlayOutcomes)
  \/ DropRejected
  \/ DropFiles(FaultSongs)
  \/ ParseDone
  \/ ParseFail
  \/ DecodeDone(PlayOutcomes)
  \/ DecodeFail

SpecFaulty == Init /\ [][NextFaulty]_vars

\* the disc: the frame loop with the pause, track and pointer handlers,
\* on a queue made by the drop of one file whose ingestion and playback
\* succeed
NextDisc ==
  \/ OnMount({"ok"})
  \/ Tick
  \/ KeySpace
  \/ KeyArrowRight({"ok"})
  \/ KeyArrowLeft({"ok"})
  \/ MediaPlay
  \/ MediaPause
  \/ OnMouseDown
  \/ OnMouseUp
  \/ OnMouseMove
  \/ DropFiles(1)
  \/ ParseDone
  \/ DecodeDone({"ok"})

SpecDisc == Init /\ [][NextDisc]_vars

\* the side effects of setSong: track selection on a queue of at most
\* EffectSongs files whose ingestion and playback succeed, every call of
\* setSong being followed to its end
NextEffects ==
  \/ OnMount({"okColors"})
  \/ KeyArrowRight({"okColors"})
  \/ KeyArrowLeft({"okColors"})
  \/ QueueClick({"okColors"})
  \/ DropFiles(EffectSongs)
  \/ ParseDone
  \/ DecodeDone({"okColors"})
  \/ SideEffects(EffectOutcomes)

SpecEffects == Init /\ [][NextEffects]_vars

\* the frame loop where setPlaybackRate may throw: the frames with the
\* pause key, on a queue made by the drop of one file
NextFrames ==
  \/ OnMount({"ok"})
  \/ Tick
  \/ TickRateThrows
  \/ KeySpace
  \/ DropFiles(1)
  \/ ParseDone
  \/ DecodeDone({"ok"})

SpecFrames == Init /\ [][NextFrames]_vars

\* teardown: the frame loop and track selection up to and after
\* onDestroy, on a queue made by the drop of one file, with Web Audio
\* calls that may throw
NextTeardown ==
  \/ OnMount(PlayOutcomes)
  \/ OnDestroy
  \/ Tick
  \/ KeySpace
  \/ KeyArrowRight(PlayOutcomes)
  \/ DropFiles(1)
  \/ ParseDone
  \/ DecodeDone(PlayOutcomes)

SpecTeardown == Init /\ [][NextTeardown]_vars

\* player.ts on its own: its exported functions called in any order, with
\* Web Audio calls that succeed
NextPlayer ==
  \/ ClientInitPlayer
  \/ ClientPlay({"ok"})
  \/ ClientSetPlaybackRate
  \/ ClientCleanupPlayer

SpecPlayer == Init /\ [][NextPlayer]_vars

\* lerpAngle on its own
NextLerp == CallLerpAngle

SpecLerp == InitLerp /\ [][NextLerp]_vars

\* the pointer: the frame loop with the pause key and the pointer events
\* on and off the disc, without any track
NextPointer ==
  \/ OnMount({"ok"})
  \/ Tick
  \/ KeySpace
  \/ OnMouseDown
  \/ OnMouseUp
  \/ OnMouseMove
  \/ MouseUpElsewhere

SpecPointer == Init /\ [][NextPointer]_vars

\* overlapping selections: the scenario of the side effects where every
\* extractColors and every metadata update succeeds
NextSelections ==
  \/ OnMount({"okColors"})
  \/ KeyArrowRight({"okColors"})
  \/ KeyArrowLeft({"okColors"})
  \/ QueueClick({"okColors"})
  \/ DropFiles(EffectSongs)
  \/ ParseDone
  \/ DecodeDone({"okColors"})
  \/ SideEffects({"ok"})

SpecSelections == Init /\ [][NextSelections]_vars

=============================================================================
